---- MODULE Spec2Model ----
(***************************************************************************)
(* A model of src/src/parser.c: the grammar-driven matcher of augeas.      *)
(*                                                                         *)
(* The C call stack of the mutually recursive functions parse_match,       *)
(* parse_quant_match, parse_alternative and parse_sequence is the variable *)
(* `stack`; every action is the next step of the function on top of it.    *)
(* struct state is the variables pos (state->pos - state->text), lineno    *)
(* and applied.  The trace flags (PF_ADVANCE, PF_MATCH, PF_TOKEN, PF_RULE) *)
(* only write to the log and change nothing of struct state; they are not  *)
(* part of the model.  The grammar tree is read-only input.                *)
(***************************************************************************)
EXTENDS Integers, Sequences, FiniteSets, TLC

VARIABLES
    grammar,   \* the grammar parse was called with
    text,      \* state->text, without its terminating '\0'
    pos,       \* state->pos - state->text
    lineno,    \* state->lineno
    applied,   \* state->applied
    stack,     \* the frames of the calls below parse, innermost last
    diag,      \* what grammar_error / parse_error have reported, as the set
               \* of the (line, message) pairs reported so far
    pc,        \* where parse is: "start", "running" (in parse_rule), "done"
    outcome    \* "failed" if parse printed "Parse failed", "success" if it
               \* returned without; "none" until then

vars == <<grammar, text, pos, lineno, applied, stack, diag, pc, outcome>>

(***************************************************************************)
(* Bounds of the checked instance.                                         *)
(***************************************************************************)
MaxLen == 4

NL == "\n"

NUL == "NUL"

Chars == {"a", "b", NL}

RECURSIVE SeqsUpTo(_)
SeqsUpTo(n) ==
    IF n = 0 THEN {<<>>}
    ELSE LET shorter == SeqsUpTo(n - 1)
         IN  shorter \cup {Append(s, c) : s \in {t \in shorter : Len(t) = n - 1}, c \in Chars}

Texts == SeqsUpTo(MaxLen)

(***************************************************************************)
(* Literals.  A struct literal holds a compiled pattern `re`.  The model   *)
(* covers the patterns that are a sequence of items, each one character    *)
(* or one starred character (a, ab, a*, a*b, the empty pattern).           *)
(***************************************************************************)
One(c) == [c |-> c, q |-> "one"]

Star(c) == [c |-> c, q |-> "star"]

Literal(re) == [re |-> re]

La == Literal(<<One("a")>>)

Lb == Literal(<<One("b")>>)

Lnl == Literal(<<One(NL)>>)

Lanl == Literal(<<One("a"), One(NL)>>)

Lab == Literal(<<One("a"), One("b")>>)

Lastar == Literal(<<Star("a")>>)

Lastarb == Literal(<<Star("a"), One("b")>>)

NoLiteral == Literal(<<>>)

(***************************************************************************)
(* struct match, as the fields parser.c reads: type, quant, literal,       *)
(* abbrev->literal, owner and field, matches (the list of sub-matches,     *)
(* here their node ids in list order), first (the list of first-set        *)
(* entries, each with a literal) and rule.  Pointers are node ids into     *)
(* grammar.nodes and rule ids into grammar.rules.                          *)
(***************************************************************************)
Match(type, quant, literal, matches, first, rule, owner, field) ==
    [type |-> type, quant |-> quant, literal |-> literal,
     abbrev |-> [literal |-> literal], matches |-> matches,
     first |-> [j \in DOMAIN first |-> [literal |-> first[j]]],
     rule |-> rule, owner |-> owner, field |-> field]

MLiteral(l) == Match("LITERAL", "Q_ONCE", l, <<>>, <<l>>, 0, 0, 0)

MAny(l) == Match("ANY", "Q_ONCE", l, <<>>, <<l>>, 0, 0, 0)

MAbbrevRef(l) == Match("ABBREV_REF", "Q_ONCE", l, <<>>, <<l>>, 0, 0, 0)

MField(owner, field, first) == Match("FIELD", "Q_ONCE", NoLiteral, <<>>, first, 0, owner, field)

MAlternative(q, ms, first) == Match("ALTERNATIVE", q, NoLiteral, ms, first, 0, 0, 0)

MSequence(q, ms, first) == Match("SEQUENCE", q, NoLiteral, ms, first, 0, 0, 0)

MRuleRef(q, r, first) == Match("RULE_REF", q, NoLiteral, <<>>, first, r, 0, 0)

Rule(m) == [matches |-> m]

Grammar(rules, nodes) == [rules |-> rules, nodes |-> nodes]

(***************************************************************************)
(* The grammars of the checked instance.  rules[1] is grammar->rules, the  *)
(* root rule.  The first-set of a node is the list of the literals its     *)
(* match can begin with.                                                   *)
(***************************************************************************)

\* ( 'a' )*            as a starred sequence
GStarSeq ==
    Grammar(<<Rule(1)>>,
            <<MSequence("Q_STAR", <<2>>, <<La>>), MLiteral(La)>>)

\* ( 'a' )*            as a starred alternative
GStarAlt ==
    Grammar(<<Rule(1)>>,
            <<MAlternative("Q_STAR", <<2>>, <<La>>), MLiteral(La)>>)

\* ( unit )*   with   unit: 'a'
GStarRef ==
    Grammar(<<Rule(1), Rule(2)>>,
            <<MRuleRef("Q_STAR", 2, <<La>>), MLiteral(La)>>)

\* ( 'a' )+ 'b'
GPlus ==
    Grammar(<<Rule(1)>>,
            <<MSequence("Q_ONCE", <<2, 4>>, <<La>>),
              MSequence("Q_PLUS", <<3>>, <<La>>),
              MLiteral(La),
              MLiteral(Lb)>>)

\* ( 'a' 'b' )? 'a'
GMaybe ==
    Grammar(<<Rule(1)>>,
            <<MSequence("Q_ONCE", <<2, 5>>, <<La>>),
              MSequence("Q_MAYBE", <<3, 4>>, <<La>>),
              MLiteral(La),
              MLiteral(Lb),
              MLiteral(La)>>)

\* 'a\n' B   with the abbreviation B = 'b'
GLines ==
    Grammar(<<Rule(1)>>,
            <<MSequence("Q_ONCE", <<2, 3>>, <<Lanl>>),
              MLiteral(Lanl),
              MAbbrevRef(Lb)>>)

\* ( ... $1 eol )+   with   eol: '\n'  ; ... is the wildcard a*b
GMisc ==
    Grammar(<<Rule(1), Rule(5)>>,
            <<MSequence("Q_PLUS", <<2, 3, 4>>, <<Lastarb>>),
              MAny(Lastarb),
              MField(1, 1, <<Lastarb>>),
              MRuleRef("Q_ONCE", 2, <<Lnl>>),
              MLiteral(Lnl)>>)

\* ( 'a' 'b' | 'a' 'a' | 'b' )*
GAlt ==
    Grammar(<<Rule(1)>>,
            <<MAlternative("Q_STAR", <<2, 5, 8>>, <<La, Lb>>),
              MSequence("Q_ONCE", <<3, 4>>, <<La>>),
              MLiteral(La),
              MLiteral(Lb),
              MSequence("Q_ONCE", <<6, 7>>, <<La>>),
              MLiteral(La),
              MLiteral(La),
              MLiteral(Lb)>>)

\* ( 'ab' | 'a' ) 'b'
GAltOnce ==
    Grammar(<<Rule(1)>>,
            <<MSequence("Q_ONCE", <<2, 5>>, <<Lab, La>>),
              MAlternative("Q_ONCE", <<3, 4>>, <<Lab, La>>),
              MLiteral(Lab),
              MLiteral(La),
              MLiteral(Lb)>>)

\* ( ( 'a' )? )+
GPlusMaybe ==
    Grammar(<<Rule(1)>>,
            <<MSequence("Q_PLUS", <<2>>, <<La>>),
              MSequence("Q_MAYBE", <<3>>, <<La>>),
              MLiteral(La)>>)

\* ( a* )? 'b'    a literal that matches the empty string
GEmpty ==
    Grammar(<<Rule(1)>>,
            <<MSequence("Q_ONCE", <<2, 4>>, <<Lastar, Lb>>),
              MSequence("Q_MAYBE", <<3>>, <<Lastar>>),
              MLiteral(Lastar),
              MLiteral(Lb)>>)

\* 'a' 'b' 'a'
GThree ==
    Grammar(<<Rule(1)>>,
            <<MSequence("Q_ONCE", <<2, 3, 4>>, <<La>>),
              MLiteral(La),
              MLiteral(Lb),
              MLiteral(La)>>)

\* the empty sequence, once
GNothing ==
    Grammar(<<Rule(1)>>,
            <<MSequence("Q_ONCE", <<>>, <<>>)>>)

StarOverLiteralA == {GStarSeq, GStarAlt, GStarRef}

Grammars ==
    StarOverLiteralA \cup
    {GPlus, GMaybe, GLines, GMisc, GAlt, GAltOnce, GPlusMaybe, GEmpty, GThree,
     GNothing}

(***************************************************************************)
(* Reading the grammar and the text.                                       *)
(***************************************************************************)
Node(m) == grammar.nodes[m]

\* text as the C string it is: the characters, then the terminating '\0'
TextZ == text \o <<NUL>>

\* state->pos[i], with state->pos - state->text = p
CharAt(p, i) == TextZ[p + i + 1]

(***************************************************************************)
(* pcre_exec(re, NULL, text, strlen(text), offset, PCRE_ANCHORED, ...):    *)
(* the match must start at offset; a starred item is greedy and gives      *)
(* characters back when the rest of the pattern does not match.  The       *)
(* result is rc and the bounds matches[0], matches[1] of the whole match.  *)
(***************************************************************************)
RECURSIVE Run(_, _)
Run(c, off) ==
    IF off < Len(text) /\ text[off + 1] = c THEN 1 + Run(c, off + 1) ELSE 0

RECURSIVE ReEnd(_, _, _), ReStar(_, _, _, _)
ReEnd(re, i, off) ==
    IF i > Len(re) THEN off
    ELSE IF re[i].q = "one"
         THEN IF off < Len(text) /\ text[off + 1] = re[i].c
              THEN ReEnd(re, i + 1, off + 1)
              ELSE -1
         ELSE ReStar(re, i, off, Run(re[i].c, off))

ReStar(re, i, off, k) ==
    LET e == ReEnd(re, i + 1, off + k)
    IN  IF e >= 0 THEN e
        ELSE IF k = 0 THEN -1 ELSE ReStar(re, i, off, k - 1)

PcreExec(re, offset) ==
    LET e == ReEnd(re, 1, offset)
    IN  IF e >= 0 THEN [rc |-> 1, m0 |-> offset, m1 |-> e]
                  ELSE [rc |-> -1, m0 |-> -1, m1 |-> -1]

\* lex: the length of the match of literal at offset p, or -1
Lex(literal, p) ==
    LET r == PcreExec(literal.re, p)
    IN  IF r.rc >= 1 THEN r.m1 - r.m0 ELSE -1

\* lex: the parse_error it reports when the match starts after the offset
LexDiag(literal, p, ln) ==
    LET r == PcreExec(literal.re, p)
    IN  IF r.rc >= 1 /\ r.m0 # p
        THEN {[lineno |-> ln, msg |-> "Skipped characters"]}
        ELSE {}

(***************************************************************************)
(* advance(state, cnt): lineno counts the newlines among the cnt           *)
(* characters at pos, then pos moves by cnt.                               *)
(***************************************************************************)
\* faulty variant: only the character at pos is looked at
AdvanceLinenoFirstOnly(p, cnt, ln) ==
    ln + (IF cnt > 0 /\ CharAt(p, 0) = NL THEN 1 ELSE 0)

AdvanceLineno(p, cnt, ln) ==
    ln + Cardinality({i \in 0 .. cnt - 1 : CharAt(p, i) = NL})

AdvancePos(p, cnt) == p + cnt

(***************************************************************************)
(* parse_literal: the struct state it leaves.                              *)
(***************************************************************************)
ParseLiteralState(literal, p, ln) ==
    LET len == Lex(literal, p)
    IN  IF len < 0
        THEN [applied |-> FALSE, pos |-> p, lineno |-> ln]
        ELSE [applied |-> TRUE, pos |-> AdvancePos(p, len),
              lineno |-> AdvanceLineno(p, len, ln)]

(***************************************************************************)
(* applies(match, state): some literal of match->first, tried in list      *)
(* order, has lex(...) > 0.                                                *)
(***************************************************************************)
\* faulty variant: the walk of match->first starts after its head
AppliesSkipsHead(m, p) ==
    \E j \in DOMAIN Node(m).first : j > 1 /\ Lex(Node(m).first[j].literal, p) > 0

Applies(m, p) ==
    \E j \in DOMAIN Node(m).first : Lex(Node(m).first[j].literal, p) > 0

\* the entries of match->first that applies runs lex on: up to the first hit
AppliesTried(m, p) ==
    {j \in DOMAIN Node(m).first :
        \A k \in DOMAIN Node(m).first :
            k < j => ~(Lex(Node(m).first[k].literal, p) > 0)}

AppliesDiag(m, p, ln) ==
    UNION {LexDiag(Node(m).first[j].literal, p, ln) : j \in AppliesTried(m, p)}

(***************************************************************************)
(* The call stack.  A frame is the function running, the match it was      *)
(* called with, the place it has reached and, for the list walks, the      *)
(* index of the sub-match it is at.  The top of the stack is the last      *)
(* entry.                                                                  *)
(***************************************************************************)
Frame(fn, m, at, i) == [fn |-> fn, m |-> m, at |-> at, i |-> i]

\* a call of parse_match(m, state)
Call(m) == Frame("parse_match", m, "entry", 0)

\* the function parse_match hands to parse_quant_match for a match of this type
FuncOf(type) ==
    CASE type = "ALTERNATIVE" -> "parse_alternative"
      [] type = "SEQUENCE"    -> "parse_sequence"
      [] type = "RULE_REF"    -> "parse_rule_ref"

\* a call (*func)(match, state)
Func(m) == Frame(FuncOf(Node(m).type), m, "entry", 0)

Top == stack[Len(stack)]

Pop == SubSeq(stack, 1, Len(stack) - 1)

Running == pc = "running" /\ stack # <<>>

Quantified == {"ALTERNATIVE", "SEQUENCE", "RULE_REF"}

\* parse_match at its switch, for a match of one of these types
AtMatch(types) ==
    /\ Running
    /\ Top.fn = "parse_match"
    /\ Node(Top.m).type \in types

\* parse_quant_match at its switch, for this quantifier
AtQuant(q) ==
    /\ AtMatch(Quantified)
    /\ Node(Top.m).quant = q

\* parse_quant_match back from a call of func, at this place
BackInQuant(at) ==
    /\ Running
    /\ Top.fn = "parse_quant_match"
    /\ Top.at = at

Init ==
    /\ grammar \in Grammars
    /\ text \in Texts
    /\ pos = 0
    /\ lineno = 1
    /\ applied = FALSE
    /\ stack = <<>>
    /\ diag = {}
    /\ pc = "start"
    /\ outcome = "none"

\* parse: parse_rule(grammar->rules, &state), which calls parse_match on the rule's match
ParseRule ==
    /\ pc = "start"
    /\ pc' = "running"
    /\ stack' = <<Call(grammar.rules[1].matches)>>
    /\ UNCHANGED <<grammar, text, pos, lineno, applied, diag, outcome>>

\* parse_match, cases LITERAL, ANY and ABBREV_REF: parse_literal
ParseLiteral ==
    /\ AtMatch({"LITERAL", "ANY", "ABBREV_REF"})
    /\ LET n == Node(Top.m)
           literal == IF n.type = "ABBREV_REF" THEN n.abbrev.literal ELSE n.literal
           st == ParseLiteralState(literal, pos, lineno)
       IN  /\ applied' = st.applied
           /\ pos' = st.pos
           /\ lineno' = st.lineno
           /\ diag' = diag \cup LexDiag(literal, pos, lineno)
    /\ stack' = Pop
    /\ UNCHANGED <<grammar, text, pc, outcome>>

\* find_field(owner, field): the field-th sub-match of the owning rule's match
FindField(owner, field) == Node(grammar.rules[owner].matches).matches[field]

\* parse_match, case FIELD: parse_field calls parse_match on the field found
ParseField ==
    /\ AtMatch({"FIELD"})
    /\ stack' = Append(Pop, Call(FindField(Node(Top.m).owner, Node(Top.m).field)))
    /\ UNCHANGED <<grammar, text, pos, lineno, applied, diag, pc, outcome>>

\* parse_rule_ref: parse_rule calls parse_match on the rule's match
ParseRuleRef ==
    /\ Running
    /\ Top.fn = "parse_rule_ref"
    /\ stack' = Append(Pop, Call(grammar.rules[Node(Top.m).rule].matches))
    /\ UNCHANGED <<grammar, text, pos, lineno, applied, diag, pc, outcome>>

(***************************************************************************)
(* parse_quant_match.                                                      *)
(***************************************************************************)

\* parse_quant_match calls (*func)(match, state) and will be back at `at`
CallFunc(m, at) == Append(Append(Pop, Frame("parse_quant_match", m, at, 0)), Func(m))

\* state->applied when parse_quant_match leaves its switch
QuantApplied(q, a) == IF q = "Q_ONCE" THEN a ELSE TRUE

\* faulty variant: the failed first call is not reported
PlusDiagSilent(a, ln) == {}

\* case Q_PLUS: the grammar_error after the first call of func
PlusDiag(a, ln) ==
    IF ~a THEN {[lineno |-> ln, msg |-> "match did not apply"]} ELSE {}

\* faulty variant: func is called without asking applies
MaybeTestAlways(m, p) == TRUE

\* case Q_MAYBE: the test if (applies(match, state))
MaybeTest(m, p) == Applies(m, p)

\* case Q_ONCE: call func
QuantOnce ==
    /\ AtQuant("Q_ONCE")
    /\ stack' = CallFunc(Top.m, "once")
    /\ UNCHANGED <<grammar, text, pos, lineno, applied, diag, pc, outcome>>

\* case Q_ONCE: func is back; break
QuantOnceDone ==
    /\ BackInQuant("once")
    /\ applied' = QuantApplied("Q_ONCE", applied)
    /\ stack' = Pop
    /\ UNCHANGED <<grammar, text, pos, lineno, diag, pc, outcome>>

\* case Q_MAYBE: call func if applies(match, state); otherwise applied = 1, break
QuantMaybe ==
    /\ AtQuant("Q_MAYBE")
    /\ diag' = diag \cup AppliesDiag(Top.m, pos, lineno)
    /\ IF MaybeTest(Top.m, pos)
       THEN /\ stack' = CallFunc(Top.m, "maybe")
            /\ UNCHANGED applied
       ELSE /\ stack' = Pop
            /\ applied' = QuantApplied("Q_MAYBE", applied)
    /\ UNCHANGED <<grammar, text, pos, lineno, pc, outcome>>

\* case Q_MAYBE: func is back; applied = 1, break
QuantMaybeDone ==
    /\ BackInQuant("maybe")
    /\ applied' = QuantApplied("Q_MAYBE", applied)
    /\ stack' = Pop
    /\ UNCHANGED <<grammar, text, pos, lineno, diag, pc, outcome>>

\* case Q_PLUS: the first, unconditional call of func
QuantPlus ==
    /\ AtQuant("Q_PLUS")
    /\ stack' = CallFunc(Top.m, "plus_first")
    /\ UNCHANGED <<grammar, text, pos, lineno, applied, diag, pc, outcome>>

\* case Q_PLUS: the first call is back; report if it did not apply, then
\* enter the loop while (state->applied)
QuantPlusFirst ==
    /\ BackInQuant("plus_first")
    /\ diag' = diag \cup PlusDiag(applied, lineno)
    /\ IF applied
       THEN /\ stack' = CallFunc(Top.m, "plus_loop")
            /\ UNCHANGED applied
       ELSE /\ stack' = Pop
            /\ applied' = QuantApplied("Q_PLUS", applied)
    /\ UNCHANGED <<grammar, text, pos, lineno, pc, outcome>>

\* case Q_PLUS: a call of the loop is back; while (state->applied) call func
\* again, otherwise applied = 1, break
QuantPlusLoop ==
    /\ BackInQuant("plus_loop")
    /\ IF applied
       THEN /\ stack' = CallFunc(Top.m, "plus_loop")
            /\ UNCHANGED applied
       ELSE /\ stack' = Pop
            /\ applied' = QuantApplied("Q_PLUS", applied)
    /\ UNCHANGED <<grammar, text, pos, lineno, diag, pc, outcome>>

\* case Q_STAR: the loop head, on entry and each time func is back:
\* while (applies(match, state)) call func, otherwise applied = 1, break
QuantStar ==
    /\ AtQuant("Q_STAR") \/ BackInQuant("star")
    /\ diag' = diag \cup AppliesDiag(Top.m, pos, lineno)
    /\ IF Applies(Top.m, pos)
       THEN /\ stack' = CallFunc(Top.m, "star")
            /\ UNCHANGED applied
       ELSE /\ stack' = Pop
            /\ applied' = QuantApplied("Q_STAR", applied)
    /\ UNCHANGED <<grammar, text, pos, lineno, pc, outcome>>

(***************************************************************************)
(* parse_alternative.                                                      *)
(***************************************************************************)

\* faulty variant: the last sub-match that applies is taken
AltBranchLast(m, p) ==
    LET hits == {j \in DOMAIN Node(m).matches : Applies(Node(m).matches[j], p)}
    IN  IF hits = {} THEN 0 ELSE CHOOSE j \in hits : \A k \in hits : j >= k

\* the place in match->matches of the first p with applies(p, state); 0 if none
AltBranch(m, p) ==
    LET hits == {j \in DOMAIN Node(m).matches : Applies(Node(m).matches[j], p)}
    IN  IF hits = {} THEN 0 ELSE CHOOSE j \in hits : \A k \in hits : j <= k

\* the sub-matches that parse_alternative runs applies on
AltTried(m, p) ==
    {j \in DOMAIN Node(m).matches : AltBranch(m, p) = 0 \/ j <= AltBranch(m, p)}

\* applied = 0; walk match->matches to the first p that applies and call
\* parse_match(p, state); return if there is none
ParseAlternative ==
    /\ Running
    /\ Top.fn = "parse_alternative"
    /\ Top.at = "entry"
    /\ applied' = FALSE
    /\ diag' = diag \cup
               UNION {AppliesDiag(Node(Top.m).matches[j], pos, lineno) :
                         j \in AltTried(Top.m, pos)}
    /\ LET b == AltBranch(Top.m, pos)
       IN  IF b = 0
           THEN stack' = Pop
           ELSE stack' = Append(Append(Pop, Frame("parse_alternative", Top.m, "back", b)),
                                Call(Node(Top.m).matches[b]))
    /\ UNCHANGED <<grammar, text, pos, lineno, pc, outcome>>

\* parse_match(p, state) is back: applied = 1; return
ParseAlternativeDone ==
    /\ Running
    /\ Top.fn = "parse_alternative"
    /\ Top.at = "back"
    /\ applied' = TRUE
    /\ stack' = Pop
    /\ UNCHANGED <<grammar, text, pos, lineno, diag, pc, outcome>>

(***************************************************************************)
(* parse_sequence.                                                         *)
(***************************************************************************)

\* faulty variant: the walk does not stop at a sub-match that did not apply
SeqGoesOnRegardless(a, i, n) == i < n

\* whether the walk of match->matches goes on to the sub-match after the
\* i-th of n, given the applied the i-th left
SeqGoesOn(a, i, n) == a /\ i < n

\* applied = 1; call parse_match on the first sub-match, if there is one
ParseSequence ==
    /\ Running
    /\ Top.fn = "parse_sequence"
    /\ Top.at = "entry"
    /\ applied' = TRUE
    /\ IF SeqGoesOn(TRUE, 0, Len(Node(Top.m).matches))
       THEN stack' = Append(Append(Pop, Frame("parse_sequence", Top.m, "back", 1)),
                            Call(Node(Top.m).matches[1]))
       ELSE stack' = Pop
    /\ UNCHANGED <<grammar, text, pos, lineno, diag, pc, outcome>>

\* parse_match on the i-th sub-match is back: return if it did not apply,
\* otherwise go on with the next sub-match, or return at the end of the list
ParseSequenceNext ==
    /\ Running
    /\ Top.fn = "parse_sequence"
    /\ Top.at = "back"
    /\ IF SeqGoesOn(applied, Top.i, Len(Node(Top.m).matches))
       THEN stack' = Append(Append(Pop, Frame("parse_sequence", Top.m, "back", Top.i + 1)),
                            Call(Node(Top.m).matches[Top.i + 1]))
       ELSE stack' = Pop
    /\ UNCHANGED <<grammar, text, pos, lineno, applied, diag, pc, outcome>>

(***************************************************************************)
(* parse, after parse_rule is back.                                        *)
(***************************************************************************)

\* faulty variant: the unconsumed rest of the text is not looked at
ParseFailedFlagOnly(a, p) == ~a

\* the test before "Parse failed": ! state.applied || *state.pos != '\0'
ParseFailed(a, p) == ~a \/ CharAt(p, 0) # NUL

ParseDone ==
    /\ pc = "running"
    /\ stack = <<>>
    /\ pc' = "done"
    /\ outcome' = IF ParseFailed(applied, pos) THEN "failed" ELSE "success"
    /\ UNCHANGED <<grammar, text, pos, lineno, applied, stack, diag>>

Next ==
    \/ ParseRule
    \/ ParseLiteral
    \/ ParseField
    \/ ParseRuleRef
    \/ QuantOnce
    \/ QuantOnceDone
    \/ QuantMaybe
    \/ QuantMaybeDone
    \/ QuantPlus
    \/ QuantPlusFirst
    \/ QuantPlusLoop
    \/ QuantStar
    \/ ParseAlternative
    \/ ParseAlternativeDone
    \/ ParseSequence
    \/ ParseSequenceNext
    \/ ParseDone

Spec == Init /\ [][Next]_vars

\* the calls are ordinary nested calls of one thread: a step that can be
\* taken is taken
FairSpec == Spec /\ WF_vars(Next)

(***************************************************************************)
(* Properties.                                                             *)
(***************************************************************************)
Matches(m) == Node(m).matches

AltEntry == Running /\ Top.fn = "parse_alternative" /\ Top.at = "entry"

AltBack == Running /\ Top.fn = "parse_alternative" /\ Top.at = "back"

SeqEntry == Running /\ Top.fn = "parse_sequence" /\ Top.at = "entry"

SeqBack == Running /\ Top.fn = "parse_sequence" /\ Top.at = "back"

\* the number of 'a' the text begins with
LeadingA == Run("a", 0)

\* the number of newlines in text[0 .. p)
Newlines(p) == Cardinality({k \in 1 .. p : text[k] = NL})

MismatchAt(ln) == [lineno |-> ln, msg |-> "match did not apply"]

\* C1: when parse is done, it has reported success if and only if applied
\* is true and the cursor is at the length of the text; a run that leaves
\* a suffix unconsumed is a failure even when applied is true.
RootSuccessLaw ==
    pc = "done" =>
        /\ outcome \in {"success", "failed"}
        /\ outcome = "success" <=> (applied /\ pos = Len(text))

\* a run that ends applied with a suffix left, and is reported failed
RootSuccessLawWitness ==
    /\ pc = "done"
    /\ applied
    /\ pos < Len(text)
    /\ pos > 0
    /\ outcome = "failed"

\* C2: a starred node over the literal 'a', on a text of k 'a' followed by
\* a character that is not 'a': the cursor never passes offset k, func is
\* not called at all when k = 0, and the node ends applied at offset k.
StarOverLiteralLaw ==
    (grammar \in StarOverLiteralA /\ LeadingA < Len(text)) =>
        /\ pos <= LeadingA
        /\ LeadingA = 0 => \A d \in DOMAIN stack : stack[d].fn = "parse_match"
        /\ (pc # "start" /\ stack = <<>>) => (pos = LeadingA /\ applied)

\* 'aaab': three repetitions, the cursor at the 'b', applied
StarOverLiteralWitness ==
    /\ grammar \in StarOverLiteralA
    /\ text = <<"a", "a", "a", "b">>
    /\ pc = "running"
    /\ stack = <<>>
    /\ pos = 3
    /\ applied

\* C3: when the first call of func under Q_PLUS is back, "match did not
\* apply" is reported for the current line if it did not apply, and
\* nothing is reported if it did; no other step of Q_PLUS reports.
PlusReportsMismatch ==
    [][/\ BackInQuant("plus_first") =>
            IF applied THEN diag' = diag
                       ELSE MismatchAt(lineno) \in diag'
       /\ (AtQuant("Q_PLUS") \/ BackInQuant("plus_loop")) => diag' = diag]_vars

\* ( 'a' )+ 'b' on the text 'b': the mismatch has been reported
PlusReportsMismatchWitness ==
    /\ grammar = GPlus
    /\ text = <<"b">>
    /\ MismatchAt(1) \in diag
    /\ pos = 0

\* C4: a parse that reported a mismatch ends as a failure.
MismatchMeansFailure ==
    (pc = "done" /\ diag # {}) => outcome = "failed"

\* C5: the steps of Q_MAYBE never move the cursor or the line counter;
\* when applies says no, parse_quant_match returns at once; and whenever
\* it returns, applied is true.
MaybeDriver == AtQuant("Q_MAYBE") \/ BackInQuant("maybe")

MaybeLaw ==
    [][MaybeDriver =>
        /\ pos' = pos
        /\ lineno' = lineno
        /\ stack' = Pop => applied'
        /\ (AtQuant("Q_MAYBE") /\ ~Applies(Top.m, pos)) => stack' = Pop]_vars

\* ( 'a' 'b' )? 'a' where the text does not begin with 'a': the optional
\* part was skipped, applied is true and the cursor has not moved
MaybeLawWitness ==
    /\ grammar = GMaybe
    /\ ~Applies(2, 0)
    /\ SeqBack
    /\ Top.m = 1
    /\ Top.i = 1
    /\ applied
    /\ pos = 0
    /\ lineno = 1

\* C6: the line counter is 1 plus the number of newlines consumed.
LinenoLaw == lineno = 1 + Newlines(pos)

\* 'a\n' B has consumed "a\nb": the line counter is 2
LinenoLawWitness ==
    /\ grammar = GLines
    /\ pc = "done"
    /\ outcome = "success"
    /\ pos = 3
    /\ lineno = 2

\* C7: parse_alternative calls parse_match on the first sub-match, in list
\* order, that applies at the cursor, and on that one only: when the call
\* is back it returns, whatever applied is; and the cursor never moves back.
AlternativeLaw ==
    [][/\ AltEntry =>
            \/ /\ \A j \in DOMAIN Matches(Top.m) : ~Applies(Matches(Top.m)[j], pos)
               /\ stack' = Pop
            \/ \E j \in DOMAIN Matches(Top.m) :
                  /\ Applies(Matches(Top.m)[j], pos)
                  /\ \A k \in 1 .. j - 1 : ~Applies(Matches(Top.m)[k], pos)
                  /\ stack' = Append(Append(Pop, Frame("parse_alternative", Top.m, "back", j)),
                                     Call(Matches(Top.m)[j]))
       /\ AltBack => stack' = Pop
       /\ pos' >= pos]_vars

\* ( 'a' 'b' | 'a' 'a' | 'b' )* on 'aa': both first branches apply at
\* offset 0, the first one was taken, consumed 'a' and failed at 'b'
AlternativeLawWitness ==
    /\ grammar = GAlt
    /\ text = <<"a", "a">>
    /\ AltBack
    /\ Top.i = 1
    /\ Applies(Matches(1)[1], 0)
    /\ Applies(Matches(1)[2], 0)
    /\ ~applied
    /\ pos = 1

\* C8: every parse call runs to completion.
ParseTerminates == <>(pc = "done")

\* C9: on every match that applies is about to be called on, it is true if
\* and only if lex reports a match for some literal of the first-set.
AppliesCalledOn ==
    IF AtQuant("Q_MAYBE") \/ AtQuant("Q_STAR") \/ BackInQuant("star")
    THEN {Top.m}
    ELSE IF AltEntry
         THEN {Matches(Top.m)[j] : j \in AltTried(Top.m, pos)}
         ELSE {}

AppliesIffLexMatches ==
    \A m \in AppliesCalledOn :
        Applies(m, pos) <=>
            \E j \in DOMAIN Node(m).first : Lex(Node(m).first[j].literal, pos) # -1

\* C10: parse_sequence starts with applied true and its first sub-match;
\* back from the i-th sub-match it returns if that left applied false and
\* otherwise goes on to sub-match i + 1; it never moves the cursor itself,
\* and it returns applied true only from the last sub-match.
SequenceLaw ==
    [][/\ SeqEntry =>
            /\ applied'
            /\ pos' = pos
            /\ IF Matches(Top.m) = <<>>
               THEN stack' = Pop
               ELSE stack' = Append(Append(Pop, Frame("parse_sequence", Top.m, "back", 1)),
                                    Call(Matches(Top.m)[1]))
       /\ SeqBack =>
            /\ applied' = applied
            /\ pos' = pos
            /\ ~applied => stack' = Pop
            /\ (applied /\ Top.i < Len(Matches(Top.m))) =>
                   stack' = Append(Append(Pop, Frame("parse_sequence", Top.m, "back", Top.i + 1)),
                                   Call(Matches(Top.m)[Top.i + 1]))
            /\ stack' = Pop => (applied' <=> (applied /\ Top.i = Len(Matches(Top.m))))]_vars

\* 'a' 'b' 'a' on 'aa': the first 'a' is consumed, 'b' did not apply, the
\* last sub-match is still to come and the cursor stays after the first 'a'
SequenceLawWitness ==
    /\ grammar = GThree
    /\ text = <<"a", "a">>
    /\ SeqBack
    /\ Top.i = 2
    /\ Top.i < Len(Matches(Top.m))
    /\ ~applied
    /\ pos = 1

====
